---- MODULE Spec2Model ----
(***************************************************************************)
(* A model of eventlet/patcher.py: the sys.modules snapshot                *)
(* (SysModulesSaver), inject, original, monkey_patch and                   *)
(* is_monkey_patched, as one state machine whose steps are whole calls of  *)
(* the public functions made by one thread.                                *)
(*                                                                         *)
(* Module names are sequences of their dotted components, <<"pkg","sub">>  *)
(* for "pkg.sub"; the reserved cache keys put their prefix in front, so    *)
(* that str.startswith(name + ".") is the proper-prefix test on sequences. *)
(* Objects (modules) are records with an identity: two objects are the     *)
(* same object exactly when the records are equal.                         *)
(***************************************************************************)
EXTENDS Integers, Sequences, FiniteSets, TLC

\* ------------------------------------------------------------------ bounds

\* Module objects one behaviour may create under one name by importing.
MaxObjs == 3
\* Holds of the import lock one behaviour may leak.
MaxLock == 2

\* ------------------------------------------------------------------ objects

Obj(k, n, i) == [k |-> k, n |-> n, i |-> i]
\* The model's mark for "key not in sys.modules"; never a value of the program.
Absent == Obj("absent", <<>>, 0)
\* Python's None, a value sys.modules may hold.
NoneVal == Obj("None", <<>>, 0)
\* The module object the interpreter imported under a name before any patching.
Native(n) == Obj("native", n, 0)
\* The cooperative module eventlet.green.<n>.
Green(n) == Obj("green", n, 0)
\* A module object a caller passes as an override.
Fake(n) == Obj("fake", n, 0)
\* The i-th module object an import created under the name n.
Fresh(n, i) == Obj("fresh", n, i)

\* ------------------------------------------------------------------ names

Os == <<"os">>
Select == <<"select">>
Selectors == <<"selectors">>
Socket == <<"socket">>
Ssl == <<"ssl">>
Queue == <<"queue">>
Thread == <<"_thread">>
Threading == <<"threading">>
Time == <<"time">>
MySQLdb == <<"MySQLdb">>
Builtins == <<"builtins">>
Subprocess == <<"subprocess">>
Pkg == <<"pkg">>
PkgSub == <<"pkg", "sub">>

StdNames ==
  {Os, Select, Selectors, Socket, Ssl, Queue, Thread, Threading, Time,
   MySQLdb, Builtins, Subprocess}
PlainNames == StdNames \cup {Pkg, PkgSub}

patched_name(module_name) == <<"__patched_module_">> \o module_name
original_name(modname) == <<"__original_module_">> \o modname

Keys ==
  PlainNames \cup {patched_name(n) : n \in PlainNames}
             \cup {original_name(n) : n \in PlainNames}

\* imported_module_name.startswith(module_name + ".")
StartsWithDot(imported_module_name, module_name) ==
  /\ Len(imported_module_name) > Len(module_name)
  /\ SubSeq(imported_module_name, 1, Len(module_name)) = module_name

\* __exclude
exclude == {"__builtins__", "__file__", "__name__"}

\* ------------------------------------------------------------------ state

VARIABLES
  modules,          \* sys.modules: Keys -> object, Absent where the key is missing
  lock,             \* holds of the import lock by the calling thread
  nextId,           \* per name, the module objects imports have created
  attrs,            \* the attributes of the native and imported module objects
  globs,            \* the caller's destination dictionaries (new_globals)
  already_patched,  \* the patch record: the set of keys of already_patched
  bootstrap_thread, \* importlib._bootstrap._thread
  upgrades,         \* calls of _green_existing_locks so far
  avail,            \* the optional packages that import in this process
  debug,            \* __debug__: FALSE when the interpreter runs with -O
  call,             \* the call that has just ended: operation, arguments, outcome
  pre,              \* the state that call started from
  pass,             \* an upgrade pass: the object graph it got and what it left
  conv,             \* a lock conversion: the lock it got and what it left
  thr               \* the threads that run operations side by side

vars ==
  <<modules, lock, nextId, attrs, globs, already_patched, bootstrap_thread,
    upgrades, avail, debug, call, pre, pass, conv, thr>>

\* The state the operations act on, as one record.
World ==
  [modules |-> modules, lock |-> lock, nextId |-> nextId, attrs |-> attrs,
   globs |-> globs, already_patched |-> already_patched,
   bootstrap_thread |-> bootstrap_thread, upgrades |-> upgrades,
   avail |-> avail, debug |-> debug]

\* sys.modules.get(modname, None)
ModulesGet(reg, modname) ==
  IF reg[modname] = Absent THEN NoneVal ELSE reg[modname]

\* ------------------------------------------------------------------ SysModulesSaver

\* SysModulesSaver.save for the names in module_names: a dict from name to
\* the value sys.modules.get gives.
SaverSave(saved, reg, module_names) ==
  [n \in (DOMAIN saved) \cup module_names |->
     IF n \in module_names THEN ModulesGet(reg, n) ELSE saved[n]]

\* The empty dict.
EmptyDict == [n \in {} |-> NoneVal]

\* SysModulesSaver.__init__: acquire the import lock, then save.
SaverInit(w, module_names) ==
  [w |-> [w EXCEPT !.lock = @ + 1],
   saved |-> SaverSave(EmptyDict, w.modules, module_names)]

\* The loop of SysModulesSaver.restore over self._saved.
RestoreModules(reg, saved) ==
  [k \in Keys |->
     IF k \in DOMAIN saved
     THEN IF saved[k] # NoneVal THEN saved[k] ELSE Absent
     ELSE reg[k]]

\* SysModulesSaver.restore: write the saved names back, release the lock.
SaverRestore(w, saved) ==
  [w EXCEPT !.modules = RestoreModules(w.modules, saved), !.lock = @ - 1]

\* ------------------------------------------------------------------ module contents

\* The attribute names the model follows on a module object.  f, g, h stand
\* for a module's own functions; the others are the attributes patcher.py
\* names.
AttrNames ==
  {"__builtins__", "__file__", "__name__", "f", "g", "h",
   "RLock", "SimpleQueue", "Queue.__init__", "_after_fork"}

\* The attributes of a module as its import leaves it ("absent": none).
ModuleAttrs(name) ==
  [a \in AttrNames |->
     CASE a = "RLock" -> IF name = Threading THEN "C" ELSE "absent"
       [] a = "_after_fork" -> IF name = Threading THEN "stdlib" ELSE "absent"
       [] a = "SimpleQueue" -> IF name = Queue THEN "C" ELSE "absent"
       [] a = "Queue.__init__" -> IF name = Queue THEN "stdlib" ELSE "absent"
       [] OTHER -> "native"]

\* dir(module) without the excluded names
PublicDir(am) == {a \in AttrNames : am[a] # "absent" /\ a \notin exclude}

\* mod.__patched__ of a cooperative module
GreenPatched == {"f", "g"}
\* getattr(mod, attr_name, None) of a cooperative module: g is declared in
\* __patched__ and missing from the module.
GreenAttr(attr_name) == IF attr_name = "f" THEN "green" ELSE "None"
\* getattr(mod, "__deleted__", [])
GreenDeleted == {"h"}

\* ------------------------------------------------------------------ the green module lists

_green_os_modules == <<<<Os, Green(Os)>>>>
_green_select_modules == <<<<Select, Green(Select)>>, <<Selectors, Green(Selectors)>>>>
_green_socket_modules(av) ==
  IF "ssl" \in av
  THEN <<<<Socket, Green(Socket)>>, <<Ssl, Green(Ssl)>>>>
  ELSE <<<<Socket, Green(Socket)>>>>
_green_subprocess_modules == <<<<Subprocess, Green(Subprocess)>>>>
_green_thread_modules ==
  <<<<Queue, Green(Queue)>>, <<Thread, Green(Thread)>>, <<Threading, Green(Threading)>>>>
_green_time_modules == <<<<Time, Green(Time)>>>>
_green_MySQLdb(av) ==
  IF "MySQLdb" \in av THEN <<<<MySQLdb, Green(MySQLdb)>>>> ELSE <<>>
_green_builtins(av) ==
  IF "builtin" \in av THEN <<<<Builtins, Green(Builtins)>>>> ELSE <<>>

\* inject's and patch_function's default additional_modules
DefaultAdditional(av) ==
  _green_os_modules \o _green_select_modules \o _green_socket_modules(av)
    \o _green_thread_modules \o _green_time_modules

\* ------------------------------------------------------------------ import

\* What a module's body imports when it runs: threading imports _thread,
\* queue imports threading, the package imports its submodule.
ImportDeps(name) ==
  CASE name = Threading -> Thread
    [] name = Queue -> Threading
    [] name = Pkg -> PkgSub
    [] OTHER -> <<>>

\* Whether a module of that name can be found at all.
Findable(av, name) ==
  CASE name = MySQLdb -> "MySQLdb" \in av
    [] name = Ssl -> "ssl" \in av
    [] OTHER -> TRUE

Raised(w) == [w |-> w, raised |-> TRUE, ret |-> NoneVal]
Returned(w, v) == [w |-> w, raised |-> FALSE, ret |-> v]

\* The rest of a call after a step that may raise: the exception goes on
\* to the caller, a result goes to the rest.
Then(r, rest(_)) == IF r.raised THEN r ELSE rest(r)
\* A value, named for what follows.
With(v, rest(_)) == rest(v)

\* A failed import leaves no sys.modules entry for the module.
ImportFailed(r, name, m) ==
  IF r.raised
  THEN Raised([r.w EXCEPT !.modules[name] = Absent,
                          !.attrs = [o \in (DOMAIN @) \ {m} |-> @[o]]])
  ELSE Returned(r.w, m)

\* __import__(name): the module sys.modules binds, or a new module object
\* bound under name; raises where sys.modules binds None, where the module
\* is not found and where its body raises (the names in bad).
RECURSIVE Import(_, _, _)
Import(w, name, bad) ==
  IF w.modules[name] = NoneVal THEN Raised(w)
  ELSE IF w.modules[name] # Absent THEN Returned(w, w.modules[name])
  ELSE IF name \in bad \/ ~Findable(w.avail, name) THEN Raised(w)
  ELSE
    With(Fresh(name, w.nextId[name]), LAMBDA m :
    With([w EXCEPT !.modules[name] = m,
                   !.nextId[name] = @ + 1,
                   !.attrs = (m :> ModuleAttrs(name)) @@ @], LAMBDA w1 :
      IF ImportDeps(name) = <<>> THEN Returned(w1, m)
      ELSE ImportFailed(Import(w1, ImportDeps(name), bad), name, m)))

\* ------------------------------------------------------------------ inject

\* for name, mod in additional_modules: sys.modules[name] = mod
Cover(reg, additional_modules) ==
  [k \in Keys |->
     LET at == {i \in DOMAIN additional_modules : additional_modules[i][1] = k}
     IN IF at = {} THEN reg[k]
        ELSE additional_modules[CHOOSE i \in at : \A j \in at : j <= i][2]]

\* A pop that also takes the cache entry original keeps for module_name:
\* C8 does not hold of it.
PopWithOriginalEntry(reg, module_name) ==
  [k \in Keys |->
     IF \/ k = module_name
        \/ StartsWithDot(k, module_name)
        \/ k = original_name(module_name)
     THEN Absent ELSE reg[k]]

\* sys.modules.pop(module_name, None), and the pop of every key that starts
\* with module_name + "."
PopWithSubmodules(reg, module_name) ==
  [k \in Keys |->
     IF k = module_name \/ StartsWithDot(k, module_name) THEN Absent ELSE reg[k]]

\* for name in dir(module): if name not in __exclude: new_globals[name] = ...
Populate(gl, new_globals, am) ==
  IF new_globals \in DOMAIN gl
  THEN [gl EXCEPT ![new_globals] =
          [a \in AttrNames |-> IF a \in PublicDir(am) THEN am[a] ELSE @[a]]]
  ELSE gl

\* sys.modules as inject has arranged it when it calls __import__
InjectView(w, module_name, additional_modules) ==
  LET mods == IF additional_modules = <<>>
              THEN DefaultAdditional(w.avail) ELSE additional_modules
  IN PopWithSubmodules(Cover(w.modules, mods), module_name)

\* The names inject snapshots: those of additional_modules, then module_name.
InjectSaved(w, module_name, additional_modules) ==
  With(IF additional_modules = <<>>
       THEN DefaultAdditional(w.avail) ELSE additional_modules, LAMBDA mods :
    SaverSave(SaverInit(w, {mods[i][1] : i \in DOMAIN mods}).saved,
              w.modules, {module_name}))

\* The try/finally of inject, from the result r of __import__.
InjectFinish(r, saved, module_name, new_globals) ==
  IF r.raised
  THEN Raised(SaverRestore(r.w, saved))
  ELSE Returned(
         SaverRestore(
           [r.w EXCEPT
              !.globs = Populate(@, new_globals, r.w.attrs[r.ret]),
              !.modules[patched_name(module_name)] = r.ret],
           saved),
         r.ret)

\* inject(module_name, new_globals, *additional_modules); new_globals is the
\* name of one of the caller's dictionaries, or "None".
Inject(w, module_name, new_globals, additional_modules, bad) ==
  IF w.modules[patched_name(module_name)] # Absent
  THEN Returned(w, w.modules[patched_name(module_name)])
  ELSE InjectFinish(
         Import([w EXCEPT
                   !.lock = @ + 1,
                   !.modules = InjectView(w, module_name, additional_modules)],
                module_name, bad),
         InjectSaved(w, module_name, additional_modules),
         module_name, new_globals)

\* ------------------------------------------------------------------ original

\* deps = {"threading": "_thread", "queue": "threading"}; <<>>: not in deps
deps(modname) ==
  CASE modname = Threading -> Thread
    [] modname = Queue -> Threading
    [] OTHER -> <<>>

\* The try block of original after __import__ returned real_mod: wrap
\* Queue.__init__ for queue (a module without _threading), store the cache
\* entry.
OriginalStore(w, modname, real_mod) ==
  [w EXCEPT
     !.attrs[real_mod]["Queue.__init__"] = IF modname = Queue THEN "pinned" ELSE @,
     !.modules[original_name(modname)] = real_mod]

\* return sys.modules[original_name]
OriginalReturn(w, modname) == Returned(w, w.modules[original_name(modname)])

\* The try/finally of original, from the result r of __import__, and the
\* return.
OriginalFinish(r, saved, modname) ==
  IF r.raised
  THEN Raised(SaverRestore(r.w, saved))
  ELSE OriginalReturn(SaverRestore(OriginalStore(r.w, modname, r.ret), saved),
                      modname)

\* original after sys.modules[dependency] = original(dependency), whose
\* result is d: an exception of it leaves original before the try.
OriginalAfterDependency(d, saved, modname, bad) ==
  IF d.raised
  THEN Raised(d.w)
  ELSE OriginalFinish(
         Import([d.w EXCEPT !.modules[deps(modname)] = d.ret], modname, bad),
         saved, modname)

\* original(modname)
RECURSIVE Original(_, _, _)
Original(w, modname, bad) ==
  IF w.modules[original_name(modname)] # Absent
  THEN Returned(w, w.modules[original_name(modname)])
  ELSE
    With(SaverInit(w, {modname}), LAMBDA s0 :
    With([s0.w EXCEPT !.modules[modname] = Absent], LAMBDA w1 :
      IF deps(modname) = <<>>
      THEN OriginalFinish(Import(w1, modname, bad), s0.saved, modname)
      ELSE OriginalAfterDependency(
             Original(w1, deps(modname), bad),
             SaverSave(s0.saved, w1.modules, {deps(modname)}),
             modname, bad)))

\* ------------------------------------------------------------------ the function wrappers

\* func(*args, **kw), the function a wrapper wraps: it returns, it raises,
\* or it removes sys.modules[name] and returns.
Func(w, body, name) ==
  CASE body = "return" -> Returned(w, NoneVal)
    [] body = "raise" -> Raised(w)
    [] body = "pop" -> Returned([w EXCEPT !.modules[name] = Absent], NoneVal)

\* patched() of patch_function, the loop
\*   for name, mod in additional_modules: saver.save(name); sys.modules[name] = mod
\* from its round i on: the saver's dict and sys.modules after it.
RECURSIVE SaveAndCover(_, _, _, _)
SaveAndCover(saved, reg, additional_modules, i) ==
  IF i > Len(additional_modules) THEN [saved |-> saved, modules |-> reg]
  ELSE SaveAndCover(
         SaverSave(saved, reg, {additional_modules[i][1]}),
         [reg EXCEPT ![additional_modules[i][1]] = additional_modules[i][2]],
         additional_modules, i + 1)

\* try: return func(*args, **kw)  finally: saver.restore()
WrapperFinish(r, saved) == [r EXCEPT !.w = SaverRestore(r.w, saved)]

\* A call of the function patch_function(func, *additional_modules) returns.
PatchFunctionCall(w, additional_modules, body) ==
  With(IF additional_modules = <<>>
       THEN DefaultAdditional(w.avail) ELSE additional_modules, LAMBDA mods :
  With(SaveAndCover(EmptyDict, w.modules, mods, 1), LAMBDA c :
    WrapperFinish(
      Func([w EXCEPT !.lock = @ + 1, !.modules = c.modules], body, mods[1][1]),
      c.saved)))

\* patched() of _original_patch_function, the loop
\*   for name in module_names: sys.modules[name] = original(name)
\* from its round i on; an exception of original ends it.
RECURSIVE CoverWithOriginals(_, _, _, _)
CoverWithOriginals(w, module_names, i, bad) ==
  IF i > Len(module_names) THEN Returned(w, NoneVal)
  ELSE Then(Original(w, module_names[i], bad), LAMBDA o :
         CoverWithOriginals([o.w EXCEPT !.modules[module_names[i]] = o.ret],
                            module_names, i + 1, bad))

\* A call of the function _original_patch_function(func, *module_names)
\* returns: the loop runs before the try, so an exception of it reaches the
\* caller without the restore.
OriginalPatchFunctionCall(w, module_names, body, bad) ==
  With(SaverInit(w, {module_names[i] : i \in DOMAIN module_names}), LAMBDA s :
  Then(CoverWithOriginals(s.w, module_names, 1, bad), LAMBDA c :
    WrapperFinish(Func(c.w, body, module_names[1]), s.saved)))

\* ------------------------------------------------------------------ monkey_patch

accepted_args ==
  {"os", "select", "socket", "thread", "time", "psycopg", "MySQLdb",
   "builtins", "subprocess"}

\* A selection (**on) is a function from keyword names to BOOLEAN.

\* assert not ("__builtin__" in on and "builtins" in on); the statement
\* runs where __debug__ is true and is compiled out under -O
AliasAssertFails(on) == "__builtin__" \in DOMAIN on /\ "builtins" \in DOMAIN on

\* b = on.pop("__builtin__"); on["builtins"] = b
RenameAlias(on) ==
  IF "__builtin__" \in DOMAIN on
  THEN [k \in ((DOMAIN on) \ {"__builtin__"}) \cup {"builtins"} |->
          IF k = "builtins" THEN on["__builtin__"] ELSE on[k]]
  ELSE on

\* on after on.pop("all", None)
WithoutAll(on) == [k \in (DOMAIN on) \ {"all"} |-> on[k]]

\* for k in on.keys(): if k not in accepted_args: raise TypeError
UnexpectedKeyword(on) == \E k \in DOMAIN on : k \notin accepted_args

\* A default that stays on when a family is explicitly true: C5 does not
\* hold of it.
DefaultOnRegardless(all_given, on) ==
  IF "all" \in DOMAIN all_given THEN all_given["all"] ELSE TRUE

\* default_on: the value of "all", or True not in on.values()
DefaultOn(all_given, on) ==
  IF "all" \in DOMAIN all_given THEN all_given["all"]
  ELSE ~(\E k \in DOMAIN on : on[k] = TRUE)

\* The setdefault loop: on[modname] for every accepted modname.
ResolveOn(selection) ==
  LET renamed == RenameAlias(selection)
      on == WithoutAll(renamed)
      default_on == DefaultOn(renamed, on)
  IN [modname \in accepted_args |->
        IF modname \in DOMAIN on THEN on[modname]
        ELSE IF modname \in {"MySQLdb", "builtins"} THEN FALSE
        ELSE default_on]

\* The (name, modules_function) list of monkey_patch, in its order.
FamilyOrder ==
  <<"os", "select", "socket", "thread", "time", "MySQLdb", "builtins",
    "subprocess">>

modules_function(name, av) ==
  CASE name = "os" -> _green_os_modules
    [] name = "select" -> _green_select_modules
    [] name = "socket" -> _green_socket_modules(av)
    [] name = "thread" -> _green_thread_modules
    [] name = "time" -> _green_time_modules
    [] name = "MySQLdb" -> _green_MySQLdb(av)
    [] name = "builtins" -> _green_builtins(av)
    [] name = "subprocess" -> _green_subprocess_modules

\* A test that ignores the patch record: C1 does not hold of it.
OnIgnoringRecord(on, patched, name) == on[name]

\* if on[name] and not already_patched.get(name)
NewlyOn(on, patched, name) == on[name] /\ name \notin patched

\* modules_to_patch as the loop over the families builds it
RECURSIVE ModulesToPatch(_, _, _, _)
ModulesToPatch(on, patched, av, i) ==
  IF i > Len(FamilyOrder) THEN <<>>
  ELSE (IF NewlyOn(on, patched, FamilyOrder[i])
        THEN modules_function(FamilyOrder[i], av) ELSE <<>>)
       \o ModulesToPatch(on, patched, av, i + 1)

\* already_patched after the loop over the families and the psycopg step
MarkPatched(on, patched, av) ==
  patched
    \cup {FamilyOrder[i] : i \in {j \in DOMAIN FamilyOrder :
                                    NewlyOn(on, patched, FamilyOrder[j])}}
    \cup (IF NewlyOn(on, patched, "psycopg") /\ "psycopg" \in av
          THEN {"psycopg"} ELSE {})

\* register_at_fork is not None
register_at_fork == TRUE

\* The setattr loop over mod.__patched__ and the delattr loop over
\* __deleted__, on the attributes am of orig_mod.
InstallAttrs(am) ==
  [a \in AttrNames |->
     IF a \in GreenDeleted /\ am[a] # "absent" THEN "absent"
     ELSE IF a \in GreenPatched /\ GreenAttr(a) # "None" THEN GreenAttr(a)
     ELSE am[a]]

\* x._after_fork.__code__ = noop.__code__
WipeAfterFork(w, obj) ==
  IF obj \in DOMAIN w.attrs
  THEN [w EXCEPT !.attrs[obj]["_after_fork"] = "noop"] ELSE w

\* The setattr and delattr loops on orig_mod.
InstallOn(w, orig_mod) ==
  IF orig_mod \in DOMAIN w.attrs
  THEN [w EXCEPT !.attrs[orig_mod] = InstallAttrs(@)] ELSE w

\* if name == "threading" and register_at_fork: wipe _after_fork of orig_mod
\* and of inject("threading", {})
AfterForkFix(w, orig_mod, bad) ==
  Then(Inject(WipeAfterFork(w, orig_mod), Threading, "anonymous", <<>>, bad),
       LAMBDA j : Returned(WipeAfterFork(j.w, j.ret), orig_mod))

\* One round of the loop over modules_to_patch, for (name, mod).
InstallOne(w, name, bad) ==
  Then(IF ModulesGet(w.modules, name) = NoneVal
       THEN Import(w, name, bad)
       ELSE Returned(w, w.modules[name]), LAMBDA r :
    IF name = Threading /\ register_at_fork
    THEN AfterForkFix(InstallOn(r.w, r.ret), r.ret, bad)
    ELSE Returned(InstallOn(r.w, r.ret), r.ret))

\* for name, mod in modules_to_patch: ...
RECURSIVE InstallAll(_, _, _, _)
InstallAll(w, modules_to_patch, i, bad) ==
  IF i > Len(modules_to_patch) THEN Returned(w, NoneVal)
  ELSE Then(InstallOne(w, modules_to_patch[i][1], bad), LAMBDA r :
         InstallAll(r.w, modules_to_patch, i + 1, bad))

\* imp.acquire_lock(); try: the loop; finally: imp.release_lock()
InstallUnderLock(w, modules_to_patch, bad) ==
  With(InstallAll([w EXCEPT !.lock = @ + 1], modules_to_patch, 1, bad),
       LAMBDA r : [r EXCEPT !.w.lock = @ - 1])

\* import m; m.<attr> = the Python variant
ForcePython(w, name, attr, bad) ==
  Then(Import(w, name, bad), LAMBDA r :
    IF r.ret \in DOMAIN r.w.attrs
    THEN Returned([r.w EXCEPT !.attrs[r.ret][attr] = "Py"], r.ret)
    ELSE r)

\* for name, _ in modules_to_patch: if name == "threading": _green_existing_locks
GreenExistingLocks(w, modules_to_patch) ==
  [w EXCEPT !.upgrades =
     @ + Cardinality({i \in DOMAIN modules_to_patch :
                        modules_to_patch[i][1] = Threading})]

\* monkey_patch from "_threading = original('threading')" to its end
PatchBody(w, modules_to_patch, bad) ==
  Then(Original(w, Threading, bad), LAMBDA o :
  Then(InstallUnderLock(o.w, modules_to_patch, bad), LAMBDA i :
  Then(Original(i.w, Thread, bad), LAMBDA t :
  Then(ForcePython([t.w EXCEPT !.bootstrap_thread = t.ret],
                   Threading, "RLock", bad), LAMBDA a :
  Then(ForcePython(a.w, Queue, "SimpleQueue", bad), LAMBDA b :
    Returned(GreenExistingLocks(b.w, modules_to_patch), NoneVal))))))

\* monkey_patch(**selection)
MonkeyPatch(w, selection, bad) ==
  IF w.debug /\ AliasAssertFails(selection) THEN Raised(w)
  ELSE IF UnexpectedKeyword(WithoutAll(RenameAlias(selection))) THEN Raised(w)
  ELSE
    Then(Import(w, Threading, bad), LAMBDA t :
      PatchBody(
        [t.w EXCEPT !.already_patched =
                      MarkPatched(ResolveOn(selection), @, w.avail)],
        ModulesToPatch(ResolveOn(selection), w.already_patched, w.avail, 1),
        bad))

\* The dotted string of a module name.
Dotted(name) ==
  IF Len(name) = 1 THEN name[1] ELSE name[1] \o "." \o name[2]

\* The argument of is_monkey_patched: a name (a string) or a module object.
ByName(s) == [str |-> s, mod |-> NoneVal]
ByModule(o) == [str |-> "", mod |-> o]

\* is_monkey_patched(module):
\*   module in already_patched
\*   or getattr(module, "__name__", None) in already_patched
is_monkey_patched(patched, module) ==
  \/ module.mod = NoneVal /\ module.str \in patched
  \/ module.mod # NoneVal /\ Dotted(module.mod.n) \in patched

\* ------------------------------------------------------------------ the upgrade pass

\* The nested calls the interpreter allows before it raises RecursionError.
RecursionLimit == 6

\* An object graph: the containers (root is the dict the pass starts from),
\* the instances of klass, and the slots of a container (the values of a
\* dict, the items of a list, the attributes of an object).
Containers == {"root", "a", "b"}
Locks == {"l1", "l2"}
SlotOrder == <<"x", "y">>
Slots == {SlotOrder[i] : i \in DOMAIN SlotOrder}

\* References: to a container, to an instance of klass, to the object the
\* k-th call of upgrade on an instance returned, and None.
Ref(kind, name, k) == <<kind, name, k>>
Container(c) == Ref("container", c, 0)
Old(l) == Ref("klass", l, 0)
New(l, k) == Ref("new", l, k)
NoRef == Ref("None", "", 0)

\* A pass before its first step, on the graph with these kinds and slots:
\* visited = {}, old_to_new = {}.  A container is a dict, a list, an object
\* with vars(), an object whose setattr raises ("frozen"), an object
\* without vars() ("atom"), or the attribute dictionary vars(a) of the
\* object a ("vars"), a dict that shares its items with a's attributes.
\* intact: threading._PyRLock has _block and _owner, so the conversion of a
\* lock does not raise.
StartPass(kind, slot) ==
  [done |-> FALSE, kind |-> kind, input |-> slot, slot |-> slot,
   visited |-> {}, old_to_new |-> [l \in Locks |-> NoRef],
   calls |-> [l \in Locks |-> 0], traversals |-> [c \in Containers |-> 0],
   raised |-> FALSE, overflow |-> FALSE, logged |-> 0,
   intact |-> TRUE, errors |-> 0, followed |-> {}]

\* The object whose attribute dictionary a container of kind "vars" is.
VarsOwner == "a"

\* The container that keeps the slots of c.
Cell(st, c) == IF st.kind[c] = "vars" THEN VarsOwner ELSE c

\* A marking that forgets the container: C13 does not hold of it.
MarkNothing(visited, container) == visited

\* visited[id(container)] = container
MarkVisited(visited, container) == visited \cup {container}

\* new = upgrade(obj); old_to_new[obj] = new
\* upgrade is _convert_py3_rlock, which raises RuntimeError where _PyRLock
\* has not the attributes it expects.
Upgrade(st, l) ==
  IF st.intact
  THEN [st EXCEPT !.calls[l] = @ + 1, !.old_to_new[l] = New(l, st.calls[l] + 1)]
  ELSE [st EXCEPT !.calls[l] = @ + 1, !.errors = @ + 1, !.raised = TRUE]

RECURSIVE _upgrade_instances(_, _, _)
RECURSIVE upgrade_or_traverse(_, _, _)
RECURSIVE TraverseSlots(_, _, _, _, _)

\* upgrade_or_traverse(obj): the state after it and the value it returns
upgrade_or_traverse(st, obj, depth) ==
  IF obj[1] = "container" /\ obj[2] \in st.visited
  THEN [st |-> st, new |-> NoRef]
  ELSE IF obj[1] = "klass"
  THEN IF st.old_to_new[obj[2]] # NoRef
       THEN [st |-> st, new |-> st.old_to_new[obj[2]]]
       ELSE [st |-> Upgrade(st, obj[2]),
             new |-> Upgrade(st, obj[2]).old_to_new[obj[2]]]
  ELSE IF obj[1] = "container"
  THEN [st |-> _upgrade_instances(st, obj[2], depth + 1), new |-> NoRef]
  ELSE IF obj[1] = "new"
  \* an object upgrade returned is no instance of klass:
  \* _upgrade_instances(obj, ...) is called on it and finds nothing in it
  THEN [st |-> [st EXCEPT !.followed = @ \cup {obj}], new |-> NoRef]
  ELSE [st |-> st, new |-> NoRef]

\* The loops "for k, v in list(container.items())" (a snapshot, snap) and
\* "for i, v in enumerate(container)" (the list as it is), from the s-th
\* slot on:
\* new = upgrade_or_traverse(v); if new is not None: store it in the slot.
\* An exception ends the loop; setattr raises on a frozen object.
TraverseSlots(st, container, snap, s, depth) ==
  IF s > Len(SlotOrder) \/ st.kind[container] = "atom" THEN st
  ELSE
    With(upgrade_or_traverse(
           st, IF st.kind[container] = "list"
               THEN st.slot[Cell(st, container)][SlotOrder[s]]
               ELSE snap[SlotOrder[s]], depth), LAMBDA r :
      IF r.st.raised THEN r.st
      ELSE IF r.new = NoRef
      THEN TraverseSlots(r.st, container, snap, s + 1, depth)
      ELSE IF st.kind[container] = "frozen"
      THEN [r.st EXCEPT !.raised = TRUE]
      ELSE TraverseSlots([r.st EXCEPT
                            !.slot[Cell(st, container)][SlotOrder[s]] = r.new],
                         container, snap, s + 1, depth))

\* _upgrade_instances(container, klass, upgrade, visited, old_to_new): the
\* bare except around the attribute loop logs the exception and goes on.
_upgrade_instances(st, container, depth) ==
  IF depth > RecursionLimit
  THEN [st EXCEPT !.raised = TRUE, !.overflow = TRUE]
  ELSE
    With(TraverseSlots(
           [st EXCEPT !.visited = MarkVisited(@, container),
                      !.traversals[container] = @ + 1],
           container, st.slot[Cell(st, container)], 1, depth), LAMBDA st2 :
      IF st2.raised /\ st.kind[container] \in {"object", "frozen"}
      THEN [st2 EXCEPT !.raised = FALSE, !.logged = @ + 1]
      ELSE st2)

\* ------------------------------------------------------------------ the lock conversion

\* The holds of a lock the model follows.
MaxHold == 5

\* A reentrant lock: who owns it ("none": nobody) and how often.  "me" is
\* the thread that runs the conversion, as old._is_owned() sees it.
Unowned == [owner |-> "none", count |-> 0]

\* old._is_owned()
IsOwned(old) == old.owner = "me" /\ old.count > 0

\* old.release() by the owner
RLockRelease(old) ==
  IF old.count = 1 THEN Unowned ELSE [old EXCEPT !.count = @ - 1]

\* An acquire that forgets the holds so far: C14 does not hold of it.
AcquireOnce(new, ident) == [owner |-> ident, count |-> 1]

\* new.acquire() of threading._PyRLock by the thread get_ident() names:
\* one more hold for the owner, the first hold of a free lock.
PyRLockAcquire(new, ident) ==
  IF new.owner = ident THEN [new EXCEPT !.count = @ + 1]
  ELSE [owner |-> ident, count |-> 1]

\* _convert_py3_rlock(old, tid) before its first statement; ident is what
\* threading.get_ident() returns, tid the identity the caller passes.
StartConv(old, ident, tid) ==
  [done |-> FALSE, pc |-> "new", first |-> old, old |-> old, new |-> Unowned,
   acquired |-> FALSE, ident |-> ident, tid |-> tid, released |-> 0]

\* ------------------------------------------------------------------ the threads

\* Two OS threads, each running one operation statement by statement; the
\* interpreter may switch between them after every statement, and a thread
\* that asks for the import lock waits while the other holds it.
Threads == {"T1", "T2"}

\* What a thread runs: monkey_patch(**selection), original("time") or
\* inject("time", None, ("queue", <green queue>)).
Program(op, selection) == [op |-> op, selection |-> selection]

\* The sys.modules keys the threads touch.
ThreadKeys == {Time, Queue, original_name(Time), patched_name(Time)}
CacheKeys == {original_name(Time), patched_name(Time)}

\* patched_name / original_name of the module the thread works on
CacheKey(op) == IF op = "inject" THEN patched_name(Time) ELSE original_name(Time)

\* The names the operation snapshots.
Captured(op) == IF op = "inject" THEN {Queue, Time} ELSE {Time}

\* The statements of inject and original between the capture of the
\* snapshot and the end of its restore.
InSnapshot == {"cover", "pop", "import", "cache", "restore"}

\* The last write to sys.modules: who wrote which key, whether the writer
\* held the import lock, and whether another thread was between its capture
\* and its restore.
NoWrite == [thread |-> "none", key |-> <<>>, held |-> TRUE, intruded |-> FALSE]

\* The first statement of the operation the model follows.
StartPc(op) == IF op = "monkey_patch" THEN "family" ELSE "check"

\* The threads before their first statement, with sys.modules as reg.
StartThreads(prog, reg) ==
  [on |-> TRUE, prog |-> prog,
   pc |-> [t \in Threads |-> StartPc(prog[t].op)],
   i |-> [t \in Threads |-> 1],
   modules_to_patch |-> [t \in Threads |-> <<>>],
   saved |-> [t \in Threads |-> EmptyDict],
   module |-> [t \in Threads |-> Absent],
   ret |-> [t \in Threads |-> Absent],
   log |-> [t \in Threads |-> <<>>],
   holder |-> "none", holds |-> 0,
   modules |-> reg, already_patched |-> {},
   installs |-> [c \in StdNames |-> 0], upgrades |-> 0,
   stored |-> [k \in CacheKeys |-> {}],
   fresh |-> 1, last |-> NoWrite]

\* imp.acquire_lock() returns at once for thread t
CanAcquire(st, t) == st.holder \in {"none", t}
\* imp.acquire_lock()
Acquire(st, t) == [st EXCEPT !.holder = t, !.holds = @ + 1]
\* imp.release_lock()
Release(st) ==
  [st EXCEPT !.holds = @ - 1,
             !.holder = IF st.holds = 1 THEN "none" ELSE @]

\* sys.modules[key] = value (value Absent: the key is removed) by thread t
Wrote(st, t, key, value) ==
  [st EXCEPT !.modules[key] = value,
             !.last = [thread |-> t, key |-> key, held |-> st.holder = t,
                       intruded |-> \E u \in Threads \ {t} :
                                      st.pc[u] \in InSnapshot]]

\* import name by thread t: binds a new module object where none is bound
ThreadImport(st, t, name) ==
  IF st.modules[name] = Absent
  THEN [Wrote(st, t, name, Fresh(name, st.fresh)) EXCEPT !.fresh = @ + 1]
  ELSE st

\* The loop of SysModulesSaver.restore by thread t, name by name.
RECURSIVE ThreadRestore(_, _, _, _)
ThreadRestore(st, t, saved, names) ==
  IF names = {} THEN st
  ELSE LET n == CHOOSE x \in names : TRUE
       IN ThreadRestore(
            Wrote(st, t, n, IF saved[n] # NoneVal THEN saved[n] ELSE Absent),
            t, saved, names \ {n})

\* An order with the upgrade pass before the corrections: C20 does not
\* hold of it.
UpgradeFirst(pc) ==
  CASE pc = "release" -> "upgrade"
    [] pc = "upgrade" -> "bootstrap"
    [] pc = "bootstrap" -> "rlock"
    [] pc = "rlock" -> "simplequeue"
    [] pc = "simplequeue" -> "done"

\* The statement monkey_patch goes on with after the installation.
Following(pc) ==
  CASE pc = "release" -> "bootstrap"
    [] pc = "bootstrap" -> "rlock"
    [] pc = "rlock" -> "simplequeue"
    [] pc = "simplequeue" -> "upgrade"
    [] pc = "upgrade" -> "done"

\* What monkey_patch did, in the order it did it.
Installation(name) == <<"install", name>>
BootstrapCorrection == <<"correct", <<"importlib", "_bootstrap", "_thread">>>>
RLockCorrection == <<"correct", <<"threading", "RLock">>>>
SimpleQueueCorrection == <<"correct", <<"queue", "SimpleQueue">>>>
UpgradePass == <<"upgrade", Threading>>

\* What a step of a thread leaves alone.
ThreadFrame ==
  UNCHANGED <<modules, lock, nextId, attrs, globs, already_patched,
              bootstrap_thread, upgrades, avail, debug, call, pre, pass, conv>>

At(t, pc) == thr.on /\ thr.pc[t] = pc

\* if on[name] and not already_patched.get(name), for the next family
FamilyTest(t) ==
  /\ At(t, "family")
  /\ thr' =
       IF thr.i[t] > Len(FamilyOrder)
       THEN [thr EXCEPT !.pc[t] = "acquire"]
       ELSE IF NewlyOn(ResolveOn(thr.prog[t].selection), thr.already_patched,
                       FamilyOrder[thr.i[t]])
       THEN [thr EXCEPT !.pc[t] = "mark"]
       ELSE [thr EXCEPT !.i[t] = @ + 1]
  /\ ThreadFrame

\* modules_to_patch += modules_function(); already_patched[name] = True
FamilyMark(t) ==
  /\ At(t, "mark")
  /\ thr' =
       [thr EXCEPT
          !.modules_to_patch[t] = @ \o modules_function(FamilyOrder[thr.i[t]], avail),
          !.already_patched = @ \cup {FamilyOrder[thr.i[t]]},
          !.i[t] = @ + 1,
          !.pc[t] = "family"]
  /\ ThreadFrame

\* _threading = original("threading"), found in its cache;
\* imp.acquire_lock()
AcquireLock(t) ==
  /\ At(t, "acquire")
  /\ CanAcquire(thr, t)
  /\ thr' = [Acquire(thr, t) EXCEPT !.pc[t] = "install", !.i[t] = 1]
  /\ ThreadFrame

\* One round of the loop over modules_to_patch: orig_mod is looked up or
\* imported, and the attributes are set on it.
InstallRound(t) ==
  /\ At(t, "install")
  /\ thr.i[t] <= Len(thr.modules_to_patch[t])
  /\ LET name == thr.modules_to_patch[t][thr.i[t]][1]
         st == IF name \in ThreadKeys THEN ThreadImport(thr, t, name) ELSE thr
     IN thr' = [st EXCEPT !.installs[name] = @ + 1,
                          !.log[t] = Append(@, Installation(name)),
                          !.i[t] = @ + 1]
  /\ ThreadFrame

\* finally: imp.release_lock()
ReleaseLock(t) ==
  /\ At(t, "install")
  /\ thr.i[t] > Len(thr.modules_to_patch[t])
  /\ thr' = [Release(thr) EXCEPT !.pc[t] = Following("release")]
  /\ ThreadFrame

\* thread = original("_thread"), found in its cache;
\* importlib._bootstrap._thread = thread
CorrectBootstrap(t) ==
  /\ At(t, "bootstrap")
  /\ thr' = [thr EXCEPT !.log[t] = Append(@, BootstrapCorrection),
                        !.pc[t] = Following("bootstrap")]
  /\ ThreadFrame

\* import threading; threading.RLock = threading._PyRLock
CorrectRLock(t) ==
  /\ At(t, "rlock")
  /\ thr' = [thr EXCEPT !.log[t] = Append(@, RLockCorrection),
                        !.pc[t] = Following("rlock")]
  /\ ThreadFrame

\* import queue; queue.SimpleQueue = queue._PySimpleQueue
CorrectSimpleQueue(t) ==
  /\ At(t, "simplequeue")
  /\ thr' = [ThreadImport(thr, t, Queue) EXCEPT
               !.log[t] = Append(@, SimpleQueueCorrection),
               !.pc[t] = Following("simplequeue")]
  /\ ThreadFrame

\* for name, _ in modules_to_patch: if name == "threading":
\*   _green_existing_locks(original_rlock_type)
GreenLocks(t) ==
  /\ At(t, "upgrade")
  /\ LET n == Cardinality({j \in DOMAIN thr.modules_to_patch[t] :
                             thr.modules_to_patch[t][j][1] = Threading})
     IN thr' = [thr EXCEPT
                  !.upgrades = @ + n,
                  !.log[t] = IF n > 0 THEN Append(@, UpgradePass) ELSE @,
                  !.pc[t] = Following("upgrade")]
  /\ ThreadFrame

\* if patched_name in sys.modules: return sys.modules[patched_name]
\* (inject), and the same with original_name (original)
CacheTest(t) ==
  /\ At(t, "check")
  /\ thr' =
       IF thr.modules[CacheKey(thr.prog[t].op)] # Absent
       THEN [thr EXCEPT !.ret[t] = thr.modules[CacheKey(thr.prog[t].op)],
                        !.pc[t] = "done"]
       ELSE [thr EXCEPT !.pc[t] = "saver"]
  /\ ThreadFrame

\* saver = SysModulesSaver(...); saver.save(module_name)
Capture(t) ==
  /\ At(t, "saver")
  /\ CanAcquire(thr, t)
  /\ thr' = [Acquire(thr, t) EXCEPT
               !.saved[t] = SaverSave(EmptyDict, thr.modules,
                                      Captured(thr.prog[t].op)),
               !.pc[t] = IF thr.prog[t].op = "inject" THEN "cover" ELSE "pop"]
  /\ ThreadFrame

\* for name, mod in additional_modules: sys.modules[name] = mod
CoverTargets(t) ==
  /\ At(t, "cover")
  /\ thr' = [Wrote(thr, t, Queue, Green(Queue)) EXCEPT !.pc[t] = "pop"]
  /\ ThreadFrame

\* sys.modules.pop(module_name, None)
Pop(t) ==
  /\ At(t, "pop")
  /\ thr' = [Wrote(thr, t, Time, Absent) EXCEPT !.pc[t] = "import"]
  /\ ThreadFrame

\* module = __import__(module_name, ...): a new module object
Reimport(t) ==
  /\ At(t, "import")
  /\ thr' = [ThreadImport(thr, t, Time) EXCEPT
               !.module[t] = Fresh(Time, thr.fresh), !.pc[t] = "cache"]
  /\ ThreadFrame

\* sys.modules[patched_name] = module (inject),
\* sys.modules[original_name] = real_mod (original)
StoreCache(t) ==
  /\ At(t, "cache")
  /\ thr' = [Wrote(thr, t, CacheKey(thr.prog[t].op), thr.module[t]) EXCEPT
               !.stored[CacheKey(thr.prog[t].op)] = @ \cup {thr.module[t]},
               !.pc[t] = "restore"]
  /\ ThreadFrame

\* finally: saver.restore()
Restore(t) ==
  /\ At(t, "restore")
  /\ thr' = [Release(ThreadRestore(thr, t, thr.saved[t], DOMAIN thr.saved[t]))
               EXCEPT !.pc[t] = "return"]
  /\ ThreadFrame

\* return module (inject); return sys.modules[original_name] (original)
Return(t) ==
  /\ At(t, "return")
  /\ thr' = [thr EXCEPT
               !.ret[t] = IF thr.prog[t].op = "inject" THEN thr.module[t]
                          ELSE thr.modules[CacheKey("original")],
               !.pc[t] = "done"]
  /\ ThreadFrame

\* ------------------------------------------------------------------ the calls

\* The caller's destination dictionaries.
GlobNames == {"d1", "d2"}

\* additional_modules a caller passes to inject: none (the defaults), one
\* override, and an override nested under pkg with a second one.
NoAdditional == <<>>
OneOverride == <<<<Os, Fake(Os)>>>>
NestedOverride == <<<<PkgSub, Fake(PkgSub)>>, <<Os, Fake(Os)>>>>

\* A selection from its explicit toggles.
Sel(true, false) == [k \in true \cup false |-> k \in true]

\* The arguments a caller passes to is_monkey_patched.
QueryChoices ==
  {ByName(s) : s \in {"thread", "threading", "_thread", "queue", "socket",
                      "ssl", "select", "selectors", "os", "pkg"}}
    \cup {ByModule(Native(n)) : n \in {Threading, Socket, Os}}

NoCall ==
  [op |-> "none", name |-> <<>>, dest |-> "None", additional |-> <<>>,
   selection |-> Sel({}, {}), names |-> {}, query |-> ByName(""),
   bad |-> {}, raised |-> FALSE, ret |-> NoneVal, answer |-> FALSE,
   on |-> {}, body |-> "return"]

\* The process before the first call: sys.modules binds the standard
\* modules, except that os, threading and pkg.sub start as the caller's
\* environment has them (bound, missing, or bound to None).
InitMain(os_choices, threading_choices, sub_choices, avail_choices, debug_choices) ==
  /\ \E os \in os_choices, th \in threading_choices, sub \in sub_choices :
       modules =
         [k \in Keys |->
            CASE k = Os -> os
              [] k = Threading -> th
              [] k = PkgSub -> sub
              [] k \in {Ssl, MySQLdb} -> Absent
              [] k \in PlainNames \ {Os, Threading, PkgSub, Ssl, MySQLdb} -> Native(k)
              [] OTHER -> Absent]
  /\ lock = 0
  /\ nextId = [n \in PlainNames |-> 0]
  /\ attrs = [o \in {Native(n) : n \in PlainNames} |-> ModuleAttrs(o.n)]
  /\ globs = [d \in GlobNames |-> [a \in AttrNames |-> "absent"]]
  /\ already_patched = {}
  /\ bootstrap_thread = Native(Thread)
  /\ upgrades = 0
  /\ avail \in avail_choices
  /\ debug \in debug_choices
  /\ call = NoCall
  /\ pre = World

\* No upgrade pass, lock conversion or second thread is under way.
NoPass == [done |-> FALSE]
NoConv == [done |-> FALSE]
NoThreads == [on |-> FALSE]

InitWith(os_choices, threading_choices, sub_choices, avail_choices, debug_choices) ==
  /\ InitMain(os_choices, threading_choices, sub_choices, avail_choices, debug_choices)
  /\ pass = NoPass
  /\ conv = NoConv
  /\ thr = NoThreads

AllOptional == {"ssl", "MySQLdb", "builtin", "psycopg"}

\* The caller is between two calls.
Idle == call.op = "none"

\* A call runs from start to end: the state it leaves, within the bounds.
Commit(r, c) ==
  /\ \A n \in PlainNames : r.w.nextId[n] <= MaxObjs
  /\ r.w.lock <= MaxLock
  /\ modules' = r.w.modules
  /\ lock' = r.w.lock
  /\ nextId' = r.w.nextId
  /\ attrs' = r.w.attrs
  /\ globs' = r.w.globs
  /\ already_patched' = r.w.already_patched
  /\ bootstrap_thread' = r.w.bootstrap_thread
  /\ upgrades' = r.w.upgrades
  /\ avail' = avail
  /\ debug' = debug
  /\ call' = [c EXCEPT !.raised = r.raised, !.ret = r.ret]
  /\ pre' = World
  /\ UNCHANGED <<pass, conv, thr>>

CallInject(names, dests, additionals, bads) ==
  /\ Idle
  /\ \E module_name \in names, new_globals \in dests,
        additional_modules \in additionals, bad \in bads :
       \E r \in {Inject(World, module_name, new_globals, additional_modules, bad)} :
         Commit(r, [NoCall EXCEPT !.op = "inject", !.name = module_name,
                                  !.dest = new_globals,
                                  !.additional = additional_modules,
                                  !.bad = bad])

CallOriginal(names, bads) ==
  /\ Idle
  /\ \E modname \in names, bad \in bads :
       \E r \in {Original(World, modname, bad)} :
         Commit(r, [NoCall EXCEPT !.op = "original", !.name = modname,
                                  !.bad = bad])

CallMonkeyPatch(selections, bads) ==
  /\ Idle
  /\ \E selection \in selections, bad \in bads :
       \E r \in {MonkeyPatch(World, selection, bad)} :
         Commit(r, [NoCall EXCEPT !.op = "monkey_patch",
                                  !.selection = selection, !.bad = bad])

\* saver = SysModulesSaver(module_names); saver.restore()
CallSaver(names) ==
  /\ Idle
  /\ \E module_names \in SUBSET names :
       \E s \in {SaverInit(World, module_names)} :
         Commit(Returned(SaverRestore(s.w, s.saved), NoneVal),
                [NoCall EXCEPT !.op = "saver", !.names = module_names])

CallIsMonkeyPatched ==
  /\ Idle
  /\ \E module \in QueryChoices :
       Commit(Returned(World, NoneVal),
              [NoCall EXCEPT !.op = "is_monkey_patched", !.query = module,
                             !.answer = is_monkey_patched(already_patched, module)])

\* f = patch_function(func, *additional_modules); f()
CallPatchFunction(additionals, bodies) ==
  /\ Idle
  /\ \E additional_modules \in additionals, body \in bodies :
       \E r \in {PatchFunctionCall(World, additional_modules, body)} :
         Commit(r, [NoCall EXCEPT !.op = "patch_function",
                                  !.additional = additional_modules,
                                  !.body = body])

\* f = _original_patch_function(func, *module_names); f()
CallOriginalPatchFunction(name_lists, bodies, bads) ==
  /\ Idle
  /\ \E module_names \in name_lists, body \in bodies, bad \in bads :
       \E r \in {OriginalPatchFunctionCall(World, module_names, body, bad)} :
         Commit(r, [NoCall EXCEPT !.op = "original_patch_function",
                                  !.additional = module_names,
                                  !.body = body, !.bad = bad])

\* _upgrade_instances(root, klass, upgrade)
RunUpgrade ==
  /\ ~pass.done /\ pass # NoPass
  /\ pass' = [_upgrade_instances(pass, "root", 1) EXCEPT !.done = TRUE]
  /\ UNCHANGED <<modules, lock, nextId, attrs, globs, already_patched,
                 bootstrap_thread, upgrades, avail, debug, call, pre, conv, thr>>

\* What a step of the conversion leaves alone.
ConvFrame ==
  UNCHANGED <<modules, lock, nextId, attrs, globs, already_patched,
              bootstrap_thread, upgrades, avail, debug, call, pre, pass, thr>>

\* new = threading._PyRLock(); new._block = allocate_lock(); acquired = False
ConvAllocate ==
  /\ conv # NoConv /\ ~conv.done /\ conv.pc = "new"
  /\ conv' = [conv EXCEPT !.pc = "while", !.new = Unowned, !.acquired = FALSE]
  /\ ConvFrame

\* while old._is_owned(): old.release()
ConvRelease ==
  /\ conv # NoConv /\ ~conv.done /\ conv.pc = "while" /\ IsOwned(conv.old)
  /\ conv' = [conv EXCEPT !.pc = "acquire", !.old = RLockRelease(@),
                          !.released = @ + 1]
  /\ ConvFrame

\* new.acquire(); acquired = True
ConvAcquire ==
  /\ conv # NoConv /\ ~conv.done /\ conv.pc = "acquire"
  /\ conv' = [conv EXCEPT !.pc = "while", !.acquired = TRUE,
                          !.new = PyRLockAcquire(@, conv.ident)]
  /\ ConvFrame

\* The loop ends; if old._is_owned(): new.acquire(); acquired = True
ConvAfterLoop ==
  /\ conv # NoConv /\ ~conv.done /\ conv.pc = "while" /\ ~IsOwned(conv.old)
  /\ conv' = [conv EXCEPT !.pc = "pin"]
  /\ ConvFrame

\* if acquired: new._owner = tid; return new
ConvPin ==
  /\ conv # NoConv /\ ~conv.done /\ conv.pc = "pin"
  /\ conv' = [conv EXCEPT
                !.done = TRUE, !.pc = "return",
                !.new.owner = IF conv.acquired THEN conv.tid ELSE @]
  /\ ConvFrame

\* The caller takes the result and goes on.
Resume ==
  /\ ~Idle
  /\ call' = NoCall
  /\ pre' = World
  /\ UNCHANGED <<modules, lock, nextId, attrs, globs, already_patched,
                 bootstrap_thread, upgrades, avail, debug, pass, conv, thr>>

\* ------------------------------------------------------------------ specifications

\* Every operation, called in any order.
Init ==
  InitWith({Native(Os)}, {Native(Threading), Absent}, {Native(PkgSub)},
           {AllOptional}, {TRUE})

\* What the callers pass: the selections, and the imports that fail in a call.
Selections ==
  {Sel({}, {}), Sel({"thread"}, {}), Sel({"socket"}, {"thread"}),
   Sel({"os", "bogus"}, {})}
Bads == {{}, {Thread}}
Additionals == {NoAdditional, OneOverride}
\* The modules the callers ask for, and the dictionaries they pass.
InjectNames == {Pkg, Threading}
Dests == {"None", "d1"}
OriginalNames == {Thread, Threading, Queue}

Next ==
  \/ Resume
  \/ CallInject(InjectNames, Dests, Additionals, Bads)
  \/ CallOriginal(OriginalNames, Bads)
  \/ CallMonkeyPatch(Selections, Bads)

Spec == Init /\ [][Next]_vars

\* The snapshot and inject, in a process where sys.modules may bind None.
InitSnapshot ==
  InitWith({Native(Os), NoneVal, Absent}, {Native(Threading)},
           {Native(PkgSub), NoneVal, Absent}, {AllOptional}, {TRUE})

SnapshotAdditionals == {NoAdditional, OneOverride, NestedOverride}
SnapshotBads == {{}, {Pkg}}
SnapshotNames == {Os, Threading, PkgSub}
SnapshotInjectNames == {Pkg}
SnapshotDests == {"None"}

NextSnapshot ==
  \/ Resume
  \/ CallSaver(SnapshotNames)
  \/ CallInject(SnapshotInjectNames, SnapshotDests, SnapshotAdditionals, SnapshotBads)

SpecSnapshot == InitSnapshot /\ [][NextSnapshot]_vars

\* monkey_patch and is_monkey_patched.
InitPatch ==
  InitWith({Native(Os)}, {Native(Threading), Absent}, {Native(PkgSub)},
           {{}, AllOptional}, BOOLEAN)

PatchSelections ==
  {Sel({}, {}),
   Sel({"thread"}, {}),
   Sel({"socket"}, {"thread"}),
   Sel({"MySQLdb", "select"}, {}),
   Sel({}, {"thread", "time"}),
   Sel({"all"}, {"select"}),
   Sel({"__builtin__"}, {}),
   Sel({"thread", "bogus"}, {}),
   Sel({"__builtin__", "os"}, {"builtins"})}

PatchBads == {{}, {Thread}, {Threading}}

NextPatch ==
  \/ Resume
  \/ CallMonkeyPatch(PatchSelections, PatchBads)
  \/ CallIsMonkeyPatched

SpecPatch == InitPatch /\ [][NextPatch]_vars

\* The function wrappers, with override lists that name a module twice.
RepeatedOverride == <<<<Os, Fake(Os)>>, <<Os, Green(Os)>>>>
WrapAdditionals == {NoAdditional, OneOverride, NestedOverride, RepeatedOverride}
Bodies == {"return", "raise", "pop"}
WrapNameLists == {<<Threading>>, <<Queue>>, <<Thread, Time>>}

InitWrap ==
  InitWith({Native(Os), Absent}, {Native(Threading), Absent},
           {Native(PkgSub), Absent}, {AllOptional}, {TRUE})

NextWrap ==
  \/ Resume
  \/ CallPatchFunction(WrapAdditionals, Bodies)
  \/ CallOriginalPatchFunction(WrapNameLists, Bodies, Bads)

SpecWrap == InitWrap /\ [][NextWrap]_vars

\* The upgrade pass on every graph of three containers and two instances
\* of klass: root is a dict that holds a, b or an instance; a and b hold
\* containers (cycles included) and instances.
RootValues == {Container("a"), Container("b"), Old("l1")}
InnerValues == {Container(c) : c \in Containers} \cup {Old(l) : l \in Locks}
GraphKinds ==
  {[c \in Containers |-> IF c = "root" THEN "dict" ELSE IF c = "a" THEN ka ELSE kb] :
     ka \in {"list", "object", "frozen"}, kb \in {"dict", "object", "atom"}}
GraphSlots ==
  {[c \in Containers |-> IF c = "root" THEN r ELSE IF c = "a" THEN sa ELSE sb] :
     r \in [Slots -> RootValues], sa \in [Slots -> InnerValues],
     sb \in [Slots -> InnerValues]}

InitUpgrade ==
  /\ InitMain({Native(Os)}, {Native(Threading)}, {Native(PkgSub)},
              {AllOptional}, {TRUE})
  /\ \E kind \in GraphKinds, slot \in GraphSlots : pass = StartPass(kind, slot)
  /\ conv = NoConv
  /\ thr = NoThreads

NextUpgrade == RunUpgrade

SpecUpgrade == InitUpgrade /\ [][NextUpgrade]_vars

\* The upgrade pass where threading._PyRLock lacks _block or _owner, so
\* that every conversion raises RuntimeError.
InitShape ==
  /\ InitMain({Native(Os)}, {Native(Threading)}, {Native(PkgSub)},
              {AllOptional}, {TRUE})
  /\ \E kind \in GraphKinds, slot \in GraphSlots :
       pass = [StartPass(kind, slot) EXCEPT !.intact = FALSE]
  /\ conv = NoConv
  /\ thr = NoThreads

NextShape == RunUpgrade

SpecShape == InitShape /\ [][NextShape]_vars

\* The upgrade pass on graphs where b is vars(a), the attribute dictionary
\* of the object a, and root or a itself may refer to it as a dict.
SharedKinds == {[c \in Containers |->
                   CASE c = "root" -> "dict" [] c = "a" -> "object" [] OTHER -> "vars"]}
SharedSlots ==
  {[c \in Containers |-> IF c = "root" THEN r ELSE sa] :
     r \in [Slots -> RootValues], sa \in [Slots -> InnerValues]}

InitShared ==
  /\ InitMain({Native(Os)}, {Native(Threading)}, {Native(PkgSub)},
              {AllOptional}, {TRUE})
  /\ \E kind \in SharedKinds, slot \in SharedSlots : pass = StartPass(kind, slot)
  /\ conv = NoConv
  /\ thr = NoThreads

NextShared == RunUpgrade

SpecShared == InitShared /\ [][NextShared]_vars

\* The conversion of a lock that is free, held by the converting thread or
\* held by another thread.
OldLocks ==
  {Unowned} \cup {[owner |-> o, count |-> n] : o \in {"me", "other"}, n \in 1..MaxHold}
Idents == {"native_ident", "green_ident"}

InitConvert ==
  /\ InitMain({Native(Os)}, {Native(Threading)}, {Native(PkgSub)},
              {AllOptional}, {TRUE})
  /\ pass = NoPass
  /\ \E old \in OldLocks, ident \in Idents : conv = StartConv(old, ident, "green_ident")
  /\ thr = NoThreads

NextConvert ==
  \/ ConvAllocate
  \/ ConvRelease
  \/ ConvAcquire
  \/ ConvAfterLoop
  \/ ConvPin

SpecConvert == InitConvert /\ [][NextConvert]_vars

\* Two threads, each running monkey_patch, original or inject, in a process
\* that has imported time and may have imported queue.
ThreadSelections == {Sel({"thread"}, {}), Sel({"os", "thread"}, {}), Sel({"os"}, {})}
Programs ==
  {Program("monkey_patch", sel) : sel \in ThreadSelections}
    \cup {Program("original", Sel({}, {})), Program("inject", Sel({}, {}))}
QueueBindings == {Native(Queue), Absent}

ThreadRegistry(queue) ==
  [k \in ThreadKeys |->
     CASE k = Time -> Native(Time) [] k = Queue -> queue [] OTHER -> Absent]

InitThreads ==
  /\ InitMain({Native(Os)}, {Native(Threading)}, {Native(PkgSub)},
              {{}}, {TRUE})
  /\ pass = NoPass
  /\ conv = NoConv
  /\ \E prog \in [Threads -> Programs], queue \in QueueBindings :
       thr = StartThreads(prog, ThreadRegistry(queue))

NextThreads ==
  \E t \in Threads :
    \/ FamilyTest(t)
    \/ FamilyMark(t)
    \/ AcquireLock(t)
    \/ InstallRound(t)
    \/ ReleaseLock(t)
    \/ CorrectBootstrap(t)
    \/ CorrectRLock(t)
    \/ CorrectSimpleQueue(t)
    \/ GreenLocks(t)
    \/ CacheTest(t)
    \/ Capture(t)
    \/ CoverTargets(t)
    \/ Pop(t)
    \/ Reimport(t)
    \/ StoreCache(t)
    \/ Restore(t)
    \/ Return(t)

SpecThreads == InitThreads /\ [][NextThreads]_vars

\* The resolution of a selection, for every selection over the accepted
\* families.
Toggles == [accepted_args -> {"true", "false", "unset"}]
SelectionOf(t) ==
  [k \in {m \in accepted_args : t[m] # "unset"} |-> t[k] = "true"]

CallResolve ==
  /\ Idle
  /\ \E t \in Toggles :
       Commit(Returned(World, NoneVal),
              [NoCall EXCEPT
                 !.op = "resolve", !.selection = SelectionOf(t),
                 !.on = {m \in accepted_args : ResolveOn(SelectionOf(t))[m]}])

NextSelect == Resume \/ CallResolve

SpecSelect == Init /\ [][NextSelect]_vars

\* ------------------------------------------------------------------ claims

\* The names inject covers: those of its additional_modules.
OverrideNames(av, additional_modules) ==
  {(IF additional_modules = <<>> THEN DefaultAdditional(av)
    ELSE additional_modules)[i][1] :
     i \in DOMAIN (IF additional_modules = <<>> THEN DefaultAdditional(av)
                   ELSE additional_modules)}

\* The reserved cache keys of original.
OriginalKeys == {original_name(n) : n \in PlainNames}

\* C1: a second monkey_patch call with the selection of a call that has just
\* returned raises nothing and leaves the whole state (sys.modules, the
\* patch record, every module's attributes, the lock, the count of upgrade
\* passes) as the first call left it, whatever import would fail in it.
C1_SecondCallIsNoOp ==
  (call.op = "monkey_patch" /\ ~call.raised) =>
    \A bad \in {{}, {Thread}, {Threading}, {Queue}} :
      MonkeyPatch(World, call.selection, bad) = Returned(World, NoneVal)

\* C1 witness: a monkey_patch call returned after installing the thread and
\* the socket families (attributes set, the upgrade pass run).
C1_Witness ==
  /\ call.op = "monkey_patch" /\ ~call.raised
  /\ {"thread", "socket"} \subseteq already_patched
  /\ pre.already_patched = {}
  /\ upgrades = 1
  /\ attrs[modules[Socket]]["f"] = "green"

\* C2: when inject ends, by return or by exception, sys.modules binds
\* module_name and every override name as before the call.
C2_InjectRestoresBindings ==
  call.op = "inject" =>
    \A n \in {call.name} \cup OverrideNames(avail, call.additional) :
      modules[n] = pre.modules[n]

\* C3: on every exit of original(modname) the snapshot has been restored:
\* the lock is held as before, sys.modules binds modname and its dependency
\* as before, and only cache entries of original were added.
C3_OriginalRestoresOnEveryExit ==
  call.op = "original" =>
    /\ lock = pre.lock
    /\ \A k \in Keys \ OriginalKeys : modules[k] = pre.modules[k]
    /\ \A k \in OriginalKeys :
         pre.modules[k] # Absent => modules[k] = pre.modules[k]

\* C4: SysModulesSaver(names) followed at once by restore() leaves
\* sys.modules as it was, for names bound, missing or bound to None.
C4_SaverRoundTrip ==
  call.op = "saver" => modules = pre.modules

InvalidSelection(selection) ==
  \/ \E k \in DOMAIN selection : k \notin accepted_args \cup {"all", "__builtin__"}
  \/ {"__builtin__", "builtins"} \subseteq DOMAIN selection

\* C6: a monkey_patch call with an unrecognized family name or with both
\* aliases raises and leaves the patch record, sys.modules and every
\* attribute as before the call, in every mode of the interpreter.
C6_InvalidSelectionChangesNothing ==
  (call.op = "monkey_patch" /\ InvalidSelection(call.selection)) =>
    call.raised /\ World = pre

\* What holds of the refusals: an unrecognized family name is refused in
\* every mode, both aliases where assertions run, and a refused call has
\* changed nothing.
RefusedWhereChecked ==
  (/\ call.op = "monkey_patch"
   /\ \/ UnexpectedKeyword(WithoutAll(RenameAlias(call.selection)))
      \/ (debug /\ AliasAssertFails(call.selection))) =>
    call.raised /\ World = pre

\* The component c is patched: a family that has been applied lists it.
PatchedComponent(c) ==
  \E i \in DOMAIN FamilyOrder :
    /\ FamilyOrder[i] \in already_patched
    /\ \E j \in DOMAIN modules_function(FamilyOrder[i], avail) :
         modules_function(FamilyOrder[i], avail)[j][1] = c

\* C7: is_monkey_patched(m), for a module m given by name or as the module,
\* answers whether m is patched: True for every component of an applied
\* family, False for a module no applied family lists.
C7_QueryAnswersPatched ==
  call.op = "is_monkey_patched" =>
    \A c \in PlainNames :
      (call.query = ByName(Dotted(c)) \/ call.query = ByModule(Native(c))) =>
        call.answer = PatchedComponent(c)

\* C8: once original(modname) has stored its cache entry, no call changes
\* the entry, and original(modname) returns that object without raising,
\* importing or writing anything.
C8_CachedOriginalIsStable ==
  /\ \A k \in OriginalKeys :
       pre.modules[k] # Absent => modules[k] = pre.modules[k]
  /\ (call.op = "original" /\ pre.modules[original_name(call.name)] # Absent) =>
       /\ ~call.raised
       /\ call.ret = pre.modules[original_name(call.name)]
       /\ World = pre

\* C8 witness: original("threading") answered from its cache after
\* monkey_patch applied the thread family and inject cached its threading.
C8_Witness ==
  /\ call.op = "original" /\ call.name = Threading /\ ~call.raised
  /\ pre.modules[original_name(Threading)] # Absent
  /\ call.ret = modules[original_name(Threading)]
  /\ "thread" \in already_patched
  /\ modules[patched_name(Pkg)] # Absent

\* C9: when inject returns and a destination dictionary was given, the
\* dictionary holds every attribute of the returned module but the
\* excluded ones.
C9_DestPopulated ==
  (call.op = "inject" /\ ~call.raised /\ call.dest # "None") =>
    \A a \in PublicDir(attrs[call.ret]) :
      globs[call.dest][a] = attrs[call.ret][a]

\* C10: inject leaves every sys.modules item but its own
\* "__patched_module_<name>" entry as it was, the names nested under
\* module_name included.
C10_InjectChangesOnlyItsCacheEntry ==
  call.op = "inject" =>
    \A k \in Keys \ {patched_name(call.name)} : modules[k] = pre.modules[k]

\* C11: when a function wrapped by patch_function returns or raises, every
\* overridden name is bound in sys.modules as before the call, for override
\* lists that name a module once or several times.
C11_WrapperRestoresOverrides ==
  call.op = "patch_function" =>
    \A n \in OverrideNames(avail, call.additional) :
      modules[n] = pre.modules[n]

\* The containers a pass can reach from root through slots.
RECURSIVE ReachFrom(_, _, _)
ReachFrom(kind, slot, set) ==
  With(set \cup {c \in Containers :
                   \E d \in set, i \in Slots :
                     kind[d] # "atom" /\ slot[d][i] = Container(c)}, LAMBDA next :
    IF next = set THEN set ELSE ReachFrom(kind, slot, next))

\* The slots reachable from root that refer to the instance l before the pass.
Holders(l) ==
  {h \in ReachFrom(pass.kind, pass.input, {"root"}) \X Slots :
     pass.kind[h[1]] # "atom" /\ pass.input[h[1]][h[2]] = Old(l)}

\* C12: when two or more reachable slots refer to the identical instance of
\* klass before a pass, after it all of them refer to one replacement, and
\* upgrade was called once for the instance.
C12_AliasesShareOneReplacement ==
  pass.done =>
    \A l \in Locks :
      Cardinality(Holders(l)) >= 2 =>
        /\ pass.calls[l] = 1
        /\ \A h \in Holders(l) : pass.slot[h[1]][h[2]] = New(l, 1)

\* What holds of aliases: the same, in a pass that logged no exception.
AliasesShareWhereNothingRaised ==
  (pass.done /\ pass.logged = 0) =>
    \A l \in Locks :
      Cardinality(Holders(l)) >= 1 =>
        /\ pass.calls[l] = 1
        /\ \A h \in Holders(l) : pass.slot[h[1]][h[2]] = New(l, 1)

\* C13: a pass ends, without exhausting the interpreter's stack, and has
\* traversed each container at most once, on graphs with cycles too.
C13_EachContainerOnce ==
  pass.done =>
    /\ ~pass.overflow /\ ~pass.raised
    /\ \A c \in Containers : pass.traversals[c] <= 1

\* C13 witness: a pass over a cycle a -> b -> a, where b also refers to root
\* and a holds an instance, has traversed the three containers once each.
C13_Witness ==
  /\ pass.done
  /\ pass.input["root"]["x"] = Container("a")
  /\ pass.input["a"] = [x |-> Container("b"), y |-> Old("l1")]
  /\ pass.input["b"] = [x |-> Container("a"), y |-> Container("root")]
  /\ pass.kind["b"] = "object"
  /\ \A c \in Containers : pass.traversals[c] = 1
  /\ pass.slot["a"]["y"] = New("l1", 1)

\* The holds of the lock by the converting thread before the conversion.
HeldBefore == IF conv.first.owner = "me" THEN conv.first.count ELSE 0

\* C14: the lock _convert_py3_rlock returns has the recursion depth n the
\* original had for the converting thread, is owned by tid when n > 0 and
\* unowned when n = 0, and the original has been released n times and is no
\* longer held by the thread.
C14_DepthAndOwnerCarriedOver ==
  conv.done =>
    /\ conv.new.count = HeldBefore
    /\ conv.new.owner = IF HeldBefore > 0 THEN conv.tid ELSE "none"
    /\ conv.released = HeldBefore
    /\ ~IsOwned(conv.old)
    /\ conv.first.owner = "other" => conv.old = conv.first

\* C14 witness: a lock the thread held three times has been converted while
\* threading.get_ident() named the thread otherwise than tid.
C14_Witness ==
  /\ conv.done
  /\ conv.first = [owner |-> "me", count |-> 3]
  /\ conv.ident # conv.tid
  /\ conv.new = [owner |-> conv.tid, count |-> 3]

\* The operations that create snapshots.
SnapshotOps ==
  {"inject", "original", "patch_function", "original_patch_function",
   "monkey_patch"}

\* C15: when inject, original, a wrapper of patch_function or of
\* _original_patch_function, or monkey_patch returns or raises, every
\* snapshot it created has been restored, so the import lock is held as
\* often as when the operation was entered.
C15_LockHeldAsAtEntry ==
  call.op \in SnapshotOps => lock = pre.lock

\* The module sys.modules binds to name carries the attributes of its
\* cooperative module.
Installed(name) ==
  /\ modules[name] \in DOMAIN attrs
  /\ \A a \in GreenPatched :
       GreenAttr(a) # "None" => attrs[modules[name]][a] = GreenAttr(a)

\* The components of a family.
Components(family) ==
  {modules_function(family, avail)[j][1] :
     j \in DOMAIN modules_function(family, avail)}

\* C16: in every state, the state a monkey_patch that raised leaves
\* included, every family recorded in already_patched has the attributes of
\* its cooperative modules installed on its modules.
C16_MarkedFamiliesAreInstalled ==
  \A i \in DOMAIN FamilyOrder :
    FamilyOrder[i] \in already_patched =>
      \A c \in Components(FamilyOrder[i]) : Installed(c)

\* The families a monkey_patch that returned has recorded are installed.
NewlyMarkedAreInstalledOnReturn ==
  (call.op = "monkey_patch" /\ ~call.raised) =>
    \A family \in already_patched \ pre.already_patched :
      family # "psycopg" => \A c \in Components(family) : Installed(c)

\* Both threads have ended their operation.
AllDone == thr.on /\ \A t \in Threads : thr.pc[t] = "done"

\* C17: when two threads run monkey_patch side by side, under every
\* interleaving the modules of each family are installed once (never twice,
\* and once when both calls have ended) and _green_existing_locks runs at
\* most once.
C17_InstalledOnceUpgradedOnce ==
  thr.on =>
    /\ \A c \in StdNames : thr.installs[c] <= 1
    /\ thr.upgrades <= 1
    /\ AllDone =>
         \A i \in DOMAIN FamilyOrder :
           FamilyOrder[i] \in thr.already_patched =>
             \A c \in Components(FamilyOrder[i]) : thr.installs[c] = 1

\* C18: under every interleaving of inject and original calls for one
\* name, at most one object is ever stored under a cache key, and the calls
\* of one operation that return, return the identical object.
C18_CachesWrittenOnce ==
  thr.on =>
    /\ \A k \in CacheKeys : Cardinality(thr.stored[k]) <= 1
    /\ \A t, u \in Threads :
         (/\ thr.pc[t] = "done" /\ thr.pc[u] = "done"
          /\ thr.prog[t].op = thr.prog[u].op
          /\ thr.prog[t].op \in {"inject", "original"}) =>
           thr.ret[t] = thr.ret[u]

\* C19: every write to sys.modules by a thread running inject, original or
\* monkey_patch is made while that thread holds the import lock, and none
\* is made while another thread is between the capture of its snapshot and
\* its restore.
C19_WritesUnderLock ==
  thr.on => thr.last.held /\ ~thr.last.intruded

\* The writes of inject and original are made under the lock and outside
\* the other thread's snapshot.
SnapshotWritesUnderLock ==
  (/\ thr.on /\ thr.last.thread # "none"
   /\ thr.prog[thr.last.thread].op # "monkey_patch") =>
    thr.last.held /\ ~thr.last.intruded

\* The places of an event in a log.
Places(log, e) == {j \in DOMAIN log : log[j] = e}
Corrections == {BootstrapCorrection, RLockCorrection, SimpleQueueCorrection}

\* C20: in every monkey_patch that has completed, each correction (the
\* _thread of importlib._bootstrap, threading.RLock, queue.SimpleQueue) has
\* been made, after the installation of every module of the call; the upgrade
\* pass came after the corrections, and only in a call that installed
\* threading.
C20_CorrectionsAfterInstallation ==
  \A t \in Threads :
    (thr.on /\ thr.prog[t].op = "monkey_patch" /\ thr.pc[t] = "done") =>
      /\ \A e \in Corrections : Cardinality(Places(thr.log[t], e)) = 1
      /\ Len(thr.log[t]) >= Len(thr.modules_to_patch[t]) + 3
      /\ \A j \in DOMAIN thr.modules_to_patch[t] :
           thr.log[t][j] = Installation(thr.modules_to_patch[t][j][1])
      /\ \A j, k \in DOMAIN thr.log[t] :
           /\ (thr.log[t][j][1] = "install" /\ thr.log[t][k] \in Corrections)
                => j < k
           /\ (thr.log[t][j] \in Corrections /\ thr.log[t][k] = UpgradePass)
                => j < k
      /\ Places(thr.log[t], UpgradePass) # {} =>
           Places(thr.log[t], Installation(Threading)) # {}

\* C20 witness: a monkey_patch that installed the thread family has
\* completed, with the corrections and then the upgrade pass after the
\* installation of threading; another that installed only os has completed
\* with the corrections and no upgrade pass.
C20_Witness ==
  /\ AllDone
  /\ thr.log["T1"] =
       <<Installation(Queue), Installation(Thread), Installation(Threading),
         BootstrapCorrection, RLockCorrection, SimpleQueueCorrection,
         UpgradePass>>
  /\ thr.log["T2"] =
       <<Installation(Os), BootstrapCorrection, RLockCorrection,
         SimpleQueueCorrection>>

\* The additional_modules inject works with: the defaults where none are given.
OverridesOf(w, additional_modules) ==
  IF additional_modules = <<>> THEN DefaultAdditional(w.avail)
  ELSE additional_modules

\* The names at and under module_name.
AtOrUnder(module_name) ==
  {k \in Keys : k = module_name \/ StartsWithDot(k, module_name)}

\* C21: when inject calls __import__(module_name), sys.modules binds every
\* override name to its override, and binds neither module_name nor any name
\* under it that is not an override name; the override names may lie under
\* module_name.
C21_ImportSeesOverrides ==
  (call.op = "inject" /\ pre.modules[patched_name(call.name)] = Absent) =>
    /\ \A i \in DOMAIN OverridesOf(pre, call.additional) :
         InjectView(pre, call.name, call.additional)
           [OverridesOf(pre, call.additional)[i][1]]
             = OverridesOf(pre, call.additional)[i][2]
    /\ \A k \in AtOrUnder(call.name)
              \ OverrideNames(pre.avail, call.additional) :
         InjectView(pre, call.name, call.additional)[k] = Absent

\* With no override name at or under module_name, the import sees every
\* override and no binding at or under module_name.
ImportSeesOverridesElsewhere ==
  (AtOrUnder(call.name) \cap OverrideNames(pre.avail, call.additional) = {}) =>
    C21_ImportSeesOverrides

\* The modules a monkey_patch call that returned has installed and that
\* sys.modules bound before the call.
InstalledInPlace ==
  {c \in StdNames :
     /\ pre.modules[c] # Absent
     /\ \E family \in already_patched \ (pre.already_patched \cup {"psycopg"}) :
          c \in Components(family)}

\* C22: after a monkey_patch that returned, sys.modules binds every module
\* of the families it installed to the object bound before the call, every
\* attribute named in __patched__ of the cooperative module has been set on
\* that object, and no attribute named in __deleted__ is left on it.
C22_InstalledInPlace ==
  (call.op = "monkey_patch" /\ ~call.raised) =>
    \A c \in InstalledInPlace :
      /\ modules[c] = pre.modules[c]
      /\ \A a \in GreenPatched : attrs[pre.modules[c]][a] = GreenAttr(a)
      /\ \A a \in GreenDeleted : attrs[pre.modules[c]][a] = "absent"

\* The bindings are kept, the attributes the cooperative module has are set
\* and the deleted ones are gone.
InstalledInPlaceWhereDefined ==
  (call.op = "monkey_patch" /\ ~call.raised) =>
    \A c \in InstalledInPlace :
      /\ modules[c] = pre.modules[c]
      /\ \A a \in GreenPatched :
           GreenAttr(a) # "None" => attrs[pre.modules[c]][a] = GreenAttr(a)
      /\ \A a \in GreenDeleted : attrs[pre.modules[c]][a] = "absent"

\* C23: after a pass has returned, no dict value, list item or attribute
\* reachable from root refers to an instance of klass, and every reachable
\* slot that referred to an instance refers to the object upgrade returned
\* for it.
C23_NoInstanceLeft ==
  (pass.done /\ ~pass.raised) =>
    /\ \A c \in ReachFrom(pass.kind, pass.slot, {"root"}), i \in Slots :
         pass.kind[c] # "atom" => pass.slot[c][i][1] # "klass"
    /\ \A l \in Locks : \A h \in Holders(l) :
         /\ pass.old_to_new[l] # NoRef
         /\ pass.slot[h[1]][h[2]] = pass.old_to_new[l]

\* The same in a pass where no setattr raised.
NoInstanceLeftWhereNothingRaised ==
  (pass.done /\ pass.logged = 0) => C23_NoInstanceLeft

\* C24: when the conversion of a lock raises the RuntimeError about the
\* shape of _PyRLock, the exception leaves the pass (and with it
\* _green_existing_locks and monkey_patch, which catch nothing), whether the
\* lock was a dict value, a list item or an attribute, and the pass does
\* nothing after it: no handler logs it and goes on.
C24_ShapeErrorIsFatal ==
  (pass.done /\ pass.errors > 0) =>
    /\ pass.raised
    /\ pass.logged = 0
    /\ pass.errors = 1

\* The exception leaves the pass where no object with attributes lies on
\* the way from root to the lock.
ShapeErrorIsFatalOutsideObjects ==
  (/\ pass.done /\ pass.errors > 0
   /\ \A c \in Containers : pass.traversals[c] > 0 =>
        pass.kind[c] \notin {"object", "frozen"}) =>
    C24_ShapeErrorIsFatal

\* C25: in a pass, _upgrade_instances is not called on an object that
\* upgrade returned in that pass, also where the attribute dictionary of a
\* traversed object is reachable as a dict from another container.
C25_ReplacementsNotFollowed ==
  pass.done => pass.followed = {}

====
